---- MODULE Spec2Model ----
(* The OCPP gateway of src/index.ts as a state machine: the WebSocket      *)
(* server's per-connection 'message' and 'close' handlers, the registry    *)
(* chargerConnections, and the HTTP routes POST /start and POST /stop.     *)
EXTENDS Integers, Sequences, FiniteSets, TLC

\* ---------------------------------------------------------------- bounds
\* Number of charger connections the WebSocket server accepts in a run.
NConns == 2
\* Date.now() takes the values 0..MaxClock (milliseconds).
MaxClock == 1
\* Outbound Calls followed while they are unanswered.
MaxOutstanding == 2

\* ------------------------------------------------------ program constants
CALL_MESSAGE == 2
CALL_RESULT_MESSAGE == 3
\* interval of the BootNotification response
BootInterval == 300

\* ------------------------------------------------------------ JS values
\* JavaScript's undefined where a string is expected (a missing property).
UNDEF == "<undefined>"
\* JavaScript's undefined where a number is expected.
NoInt == -1
\* No WebSocket: what Map.get returns on a miss.
NoConn == 0

Conns == 1 .. NConns

\* !v for the strings and numbers a request or payload carries.
TruthyStr(s) == s # UNDEF /\ s # ""
TruthyInt(n) == n # NoInt /\ n # 0

\* `${Date.now()}`: the decimal text of the clock.
UniqueIdOfNow(now) == ToString(now)

\* ------------------------------------------------------ inbound frames
\* A raw text frame, by the JSON value it denotes. shape is the kind of that
\* value: "invalid" is text that is no JSON, "null" the JSON null, "scalar" a
\* number, string or boolean, "array" a JSON array (the OCPP wire form, whose
\* elements are messageTypeId, uniqueId, action, payload in that order, a
\* missing one being undefined), "object" a JSON object with properties of
\* those names.
NoPayload == [kind |-> "none"]
BootPayload(serial, model) ==
    [kind |-> "boot", chargePointSerialNumber |-> serial, chargePointModel |-> model]

Raw(shape, typeId, uid, action, payload) ==
    [shape |-> shape, messageTypeId |-> typeId, uniqueId |-> uid,
     action |-> action, payload |-> payload]

RawInvalid == Raw("invalid", NoInt, UNDEF, UNDEF, NoPayload)
RawNull == Raw("null", NoInt, UNDEF, UNDEF, NoPayload)
RawScalar == Raw("scalar", NoInt, UNDEF, UNDEF, NoPayload)

\* The frames a charger may send as JSON arrays (the OCPP wire form).
ArrayFrames ==
    { Raw("array", CALL_MESSAGE, "1", "BootNotification", p) :
          p \in {BootPayload("SN1", "X1"), BootPayload(UNDEF, "X1")} }
    \cup { Raw("array", CALL_MESSAGE, "1", "Heartbeat", NoPayload),
           Raw("array", CALL_MESSAGE, "1", UNDEF, NoPayload),
           Raw("array", 4, "1", "BootNotification", BootPayload("SN1", "X1")) }
    \cup { Raw("array", CALL_RESULT_MESSAGE, u, UNDEF, NoPayload) : u \in {"1", "u9"} }

\* The frames a charger may send as JSON objects.
ObjectFrames ==
    { Raw("object", CALL_MESSAGE, "1", "BootNotification", p) :
          p \in {BootPayload("SN1", "X1"), BootPayload(UNDEF, "X1"),
                 BootPayload("", "X1"), BootPayload(UNDEF, UNDEF), NoPayload} }
    \cup { Raw("object", CALL_MESSAGE, "u9", "BootNotification", BootPayload("SN1", "X1")),
           Raw("object", CALL_MESSAGE, "1", "Heartbeat", NoPayload),
           Raw("object", CALL_MESSAGE, "1", "Heartbeat", BootPayload("SN1", "X1")),
           Raw("object", CALL_MESSAGE, "1", UNDEF, NoPayload),
           Raw("object", 4, "1", "BootNotification", BootPayload("SN1", "X1")) }
    \cup { Raw("object", CALL_RESULT_MESSAGE, u, UNDEF, NoPayload) : u \in {"1", "u9"} }

Frames == {RawInvalid, RawNull, RawScalar} \cup ArrayFrames \cup ObjectFrames

\* JSON.parse(message) throws a SyntaxError on text that is no JSON.
JSONParseThrows(raw) == raw.shape = "invalid"

\* Reading a property of the parsed value throws a TypeError when it is null.
PropertyReadThrows(raw) == raw.shape = "null"

\* ocppMessage.messageTypeId: a named property, which only a JSON object
\* carries; an array, a number or a string has none (undefined).
MessageTypeIdOf(raw) == IF raw.shape = "object" THEN raw.messageTypeId ELSE NoInt

\* ocppMessage.action
ActionOf(raw) == IF raw.shape = "object" THEN raw.action ELSE UNDEF

\* ocppMessage.uniqueId
UniqueIdOf(raw) == IF raw.shape = "object" THEN raw.uniqueId ELSE UNDEF

\* ocppMessage.payload
PayloadOf(raw) == IF raw.shape = "object" THEN raw.payload ELSE NoPayload

\* The first branch's test with the comparison of the action left out.
IsBootNotification_AnyCall(raw) == MessageTypeIdOf(raw) = CALL_MESSAGE

\* The test of the first branch of the 'message' handler.
IsBootNotification(raw) ==
    MessageTypeIdOf(raw) = CALL_MESSAGE /\ ActionOf(raw) = "BootNotification"

\* The test of the second branch.
IsCallResult(raw) == MessageTypeIdOf(raw) = CALL_RESULT_MESSAGE

\* The charge point id with ?? in the place of ||: the serial number whenever
\* the payload has one, the empty string included.
ChargePointIdOf_IfPresent(payload) ==
    IF payload.chargePointSerialNumber # UNDEF
    THEN payload.chargePointSerialNumber
    ELSE payload.chargePointModel

\* payload.chargePointSerialNumber || payload.chargePointModel
ChargePointIdOf(payload) ==
    IF TruthyStr(payload.chargePointSerialNumber)
    THEN payload.chargePointSerialNumber
    ELSE payload.chargePointModel

\* What the 'message' handler reads of a frame: the parsed value taken as an
\* OCPPMessage, by its properties messageTypeId, uniqueId, action, payload.
Decode(raw) ==
    [messageTypeId |-> MessageTypeIdOf(raw), uniqueId |-> UniqueIdOf(raw),
     action |-> ActionOf(raw), payload |-> PayloadOf(raw)]

\* ----------------------------------------------------- outbound frames
\* JSON.stringify(array): the text of a JSON array, element by element.
Encode(typeId, uid, action, payload) == Raw("array", typeId, uid, action, payload)

\* The response built by sendBootNotificationResponse.
BootNotificationResponse(uniqueId) ==
    Encode(CALL_RESULT_MESSAGE, uniqueId, UNDEF,
           [kind |-> "bootResponse", interval |-> BootInterval, status |-> "Accepted"])

\* The message built by sendRemoteStartTransaction.
RemoteStartMessage(now, connectorId, idTag) ==
    Encode(CALL_MESSAGE, UniqueIdOfNow(now), "RemoteStartTransaction",
           [kind |-> "start", connectorId |-> connectorId, idTag |-> idTag])

\* The message built by sendRemoteStopTransaction.
RemoteStopMessage(now, transactionId) ==
    Encode(CALL_MESSAGE, UniqueIdOfNow(now), "RemoteStopTransaction",
           [kind |-> "stop", transactionId |-> transactionId])

\* ------------------------------------------------------------ the Map
\* chargerConnections is a Map: its entries in insertion order.
MapIndex(m, k) == { i \in 1 .. Len(m) : m[i].id = k }

\* Map.get
MapGet(m, k) ==
    IF MapIndex(m, k) = {} THEN NoConn ELSE m[CHOOSE i \in MapIndex(m, k) : TRUE].ws

\* A set that starts from an empty Map.
MapSet_Fresh(m, k, ws) == << [id |-> k, ws |-> ws] >>

\* Map.set: an existing key keeps its place, a new key goes last.
MapSet(m, k, ws) ==
    IF MapIndex(m, k) = {}
    THEN Append(m, [id |-> k, ws |-> ws])
    ELSE [i \in 1 .. Len(m) |-> IF m[i].id = k THEN [id |-> k, ws |-> ws] ELSE m[i]]

\* Map.delete
MapDelete(m, k) == SelectSeq(m, LAMBDA e : e.id # k)

\* The loop of the 'close' handler without its test connection === ws: the
\* first entry is deleted, whose ever it is.
RemoveFirstOf_Any(m, ws) == IF m = <<>> THEN m ELSE MapDelete(m, m[1].id)

\* The loop of the 'close' handler: the first entry whose connection is ws is
\* deleted, and the loop breaks.
RemoveFirstOf(m, ws) ==
    LET hits == { i \in 1 .. Len(m) : m[i].ws = ws }
    IN  IF hits = {} THEN m
        ELSE MapDelete(m, m[CHOOSE i \in hits : \A j \in hits : i <= j].id)

\* ------------------------------------------------------------- state
VARIABLES
    connState,           \* each connection: "idle" (not accepted yet), "open", "closed"
    chargerConnections,  \* the Map of charge point id to WebSocket
    clock,               \* Date.now()
    crashed,             \* an exception left a handler uncaught: the process is gone
    outstanding,         \* the outbound Calls written and not yet answered, oldest first
    last                 \* the last event handled and what it did

vars == <<connState, chargerConnections, clock, crashed, outstanding, last>>

NoBody == [chargePointId |-> UNDEF, connectorId |-> NoInt, idTag |-> UNDEF,
           transactionId |-> NoInt]

\* What one event did: the frames it wrote (ws.send, in order, each with its
\* connection), the HTTP status it answered (0: none), its console line.
Event(kind, conn, frame, body, status, log, writes) ==
    [kind |-> kind, conn |-> conn, frame |-> frame, body |-> body,
     status |-> status, log |-> log, writes |-> writes]

Init ==
    /\ connState = [c \in Conns |-> "idle"]
    /\ chargerConnections = <<>>
    /\ clock = 0
    /\ crashed = FALSE
    /\ outstanding = <<>>
    /\ last = Event("init", NoConn, RawScalar, NoBody, 0, "", <<>>)

\* ------------------------------------------------------------ actions
\* wss.on('connection'): the server accepts connection c. Connections are
\* accepted in the order of their numbers.
Connect(c) ==
    /\ ~crashed
    /\ connState[c] = "idle"
    /\ \A d \in Conns : d < c => connState[d] # "idle"
    /\ connState' = [connState EXCEPT ![c] = "open"]
    /\ last' = Event("connect", c, RawScalar, NoBody, 0, "New charger connected", <<>>)
    /\ UNCHANGED <<chargerConnections, clock, crashed, outstanding>>

\* The unanswered Calls left once frame raw has arrived from connection c: a
\* CallResult (messageTypeId 3, as a wire array or as an object) answers the
\* Calls written to c under its uniqueId.
Answered(out, c, raw) ==
    IF raw.messageTypeId = CALL_RESULT_MESSAGE /\ raw.shape \in {"array", "object"}
    THEN SelectSeq(out, LAMBDA o : ~(o.conn = c /\ o.uniqueId = raw.uniqueId))
    ELSE out

\* The exceptions the 'message' handler lets escape: JSON.parse on text that is
\* no JSON, the property read on null, the destructuring of a missing payload.
MessageThrows(raw) ==
    \/ JSONParseThrows(raw)
    \/ PropertyReadThrows(raw)
    \/ (IsBootNotification(raw) /\ PayloadOf(raw).kind = "none")

\* ws.on('message'): connection c delivers the text frame raw.
OnMessage(c, raw) ==
    /\ ~crashed
    /\ connState[c] = "open"
    /\ outstanding' = Answered(outstanding, c, raw)
    /\ UNCHANGED <<connState, clock>>
    /\ IF MessageThrows(raw)
       THEN /\ crashed' = TRUE
            /\ last' = Event("message", c, raw, NoBody, 0, "uncaught exception", <<>>)
            /\ UNCHANGED chargerConnections
       ELSE IF IsBootNotification(raw)
       THEN /\ chargerConnections' =
                   MapSet(chargerConnections, ChargePointIdOf(PayloadOf(raw)), c)
            /\ last' = Event("message", c, raw, NoBody, 0, "Charger connected",
                   << [conn |-> c, frame |-> BootNotificationResponse(UniqueIdOf(raw))] >>)
            /\ UNCHANGED crashed
       ELSE IF IsCallResult(raw)
       THEN /\ last' = Event("message", c, raw, NoBody, 0, "Received response for", <<>>)
            /\ UNCHANGED <<chargerConnections, crashed>>
       ELSE /\ last' = Event("message", c, raw, NoBody, 0,
                   "Unsupported message type or action", <<>>)
            /\ UNCHANGED <<chargerConnections, crashed>>

\* ws.on('close'): connection c closes.
Close(c) ==
    /\ ~crashed
    /\ connState[c] = "open"
    /\ connState' = [connState EXCEPT ![c] = "closed"]
    /\ chargerConnections' = RemoveFirstOf(chargerConnections, c)
    /\ last' = Event("close", c, RawScalar, NoBody, 0,
           IF chargerConnections' # chargerConnections THEN "Charger disconnected" ELSE "",
           <<>>)
    /\ UNCHANGED <<clock, crashed, outstanding>>

\* sendMessageToCharger on registry m: the frames written and the console line.
\* A write is the call of ws.send, whatever the state of the socket.
SendMessageToCharger(m, chargePointId, message) ==
    IF MapGet(m, chargePointId) # NoConn
    THEN [writes |-> << [conn |-> MapGet(m, chargePointId), frame |-> message] >>,
          log |-> "Message sent to charger"]
    ELSE [writes |-> <<>>, log |-> "error: Charger not connected"]

\* The pending correlations the process holds. The only state that outlives a
\* handler is chargerConnections: the message a command builds is a local of
\* its function, and ws.send's caller stores nothing under its uniqueId.
PendingCorrelations == {}

\* The Calls among the frames written, as unanswered Calls.
CallsOf(writes) ==
    [i \in 1 .. Len(writes) |->
        [conn |-> writes[i].conn, uniqueId |-> writes[i].frame.uniqueId]]

\* The test of POST /start with the check of idTag left out.
StartRejected_NoIdTag(body) ==
    ~TruthyStr(body.chargePointId) \/ ~TruthyInt(body.connectorId)

\* The test of POST /start for a missing parameter.
StartRejected(body) ==
    ~TruthyStr(body.chargePointId) \/ ~TruthyInt(body.connectorId) \/ ~TruthyStr(body.idTag)

\* The test of POST /stop for a missing parameter.
StopRejected(body) ==
    ~TruthyStr(body.chargePointId) \/ ~TruthyInt(body.transactionId)

StartBody(cp, k, t) ==
    [chargePointId |-> cp, connectorId |-> k, idTag |-> t, transactionId |-> NoInt]

StopBody(cp, x) ==
    [chargePointId |-> cp, connectorId |-> NoInt, idTag |-> UNDEF, transactionId |-> x]

\* The request bodies of POST /start: complete ones, and ones with a
\* parameter absent or zero.
StartBodies ==
    { StartBody("SN1", 1, "TAG1"), StartBody("X1", 1, "TAG1"),
      StartBody(UNDEF, 1, "TAG1"), StartBody("SN1", NoInt, "TAG1"),
      StartBody("SN1", 1, UNDEF), StartBody("SN1", 0, "TAG1") }

\* The request bodies of POST /stop.
StopBodies ==
    { StopBody("SN1", 7), StopBody("X1", 7), StopBody(UNDEF, 7),
      StopBody("SN1", NoInt), StopBody("SN1", 0) }

\* An HTTP command route: rejected, or its message handed to
\* sendMessageToCharger and answered 200.
Command(kind, body, rejected, message) ==
    /\ ~crashed
    /\ IF rejected
       THEN /\ last' = Event(kind, NoConn, RawScalar, body, 400, "", <<>>)
            /\ UNCHANGED outstanding
       ELSE LET sent == SendMessageToCharger(chargerConnections, body.chargePointId, message)
            IN  /\ Len(outstanding) + Len(sent.writes) <= MaxOutstanding
                /\ outstanding' = outstanding \o CallsOf(sent.writes)
                /\ last' = Event(kind, NoConn, RawScalar, body, 200, sent.log, sent.writes)
    /\ UNCHANGED <<connState, chargerConnections, clock, crashed>>

\* app.post('/start')
PostStart(body) ==
    Command("start", body, StartRejected(body),
            RemoteStartMessage(clock, body.connectorId, body.idTag))

\* app.post('/stop')
PostStop(body) ==
    Command("stop", body, StopRejected(body),
            RemoteStopMessage(clock, body.transactionId))

\* A millisecond passes.
Tick ==
    /\ ~crashed
    /\ clock < MaxClock
    /\ clock' = clock + 1
    /\ last' = Event("tick", NoConn, RawScalar, NoBody, 0, "", <<>>)
    /\ UNCHANGED <<connState, chargerConnections, crashed, outstanding>>

Next ==
    \/ \E c \in Conns : Connect(c)
    \/ \E c \in Conns, raw \in Frames : OnMessage(c, raw)
    \/ \E c \in Conns : Close(c)
    \/ \E body \in StartBodies : PostStart(body)
    \/ \E body \in StopBodies : PostStop(body)
    \/ Tick

Spec == Init /\ [][Next]_vars

\* The process does not stop the clock: while a millisecond can pass, it does.
FairSpec == Spec /\ WF_vars(Tick)

\* ============================================================ claims
\* A well-formed BootNotification Call as OCPP puts it on the wire: the JSON
\* array [2, uniqueId, "BootNotification", payload].
WireBoot(raw) ==
    /\ raw.shape = "array"
    /\ raw.messageTypeId = CALL_MESSAGE
    /\ raw.uniqueId # UNDEF
    /\ raw.action = "BootNotification"
    /\ raw.payload.kind = "boot"

\* The identity a BootNotification frame derives.
DerivedIdentity(raw) == ChargePointIdOf(raw.payload)

\* The last event is connection c's delivery of a wire BootNotification.
BootDelivered == last.kind = "message" /\ WireBoot(last.frame)

\* C1: after connection c delivers a well-formed BootNotification Call frame
\* [2, uniqueId, "BootNotification", payload] deriving identity I, a lookup of I
\* returns c; and when c closes next, a lookup of I returns NotFound.
C1_LookupAfterBoot ==
    [][ /\ (BootDelivered' =>
               MapGet(chargerConnections', DerivedIdentity(last'.frame)) = last'.conn)
        /\ ((BootDelivered /\ last'.kind = "close" /\ last'.conn = last.conn) =>
               MapGet(chargerConnections', DerivedIdentity(last.frame)) = NoConn) ]_vars

\* C2: a BootNotification Call received with uniqueId u on connection c is
\* answered by exactly one frame, written to c: a CallResult with uniqueId u,
\* interval 300 and status "Accepted". Nothing is written to another connection.
C2_BootAnsweredOnce ==
    BootDelivered =>
        /\ Len(last.writes) = 1
        /\ last.writes[1].conn = last.conn
        /\ last.writes[1].frame.shape = "array"
        /\ last.writes[1].frame.messageTypeId = CALL_RESULT_MESSAGE
        /\ last.writes[1].frame.uniqueId = last.frame.uniqueId
        /\ last.writes[1].frame.payload.kind = "bootResponse"
        /\ last.writes[1].frame.payload.interval = 300
        /\ last.writes[1].frame.payload.status = "Accepted"

\* C3: when connection c1 and then another connection c2, both open, each
\* deliver a BootNotification deriving the same identity I, the registry holds
\* exactly one entry for I, it maps to c2, and c1 is still open.
C3_LastBootWins ==
    [][ ( /\ BootDelivered
          /\ BootDelivered'
          /\ last'.conn # last.conn
          /\ DerivedIdentity(last'.frame) = DerivedIdentity(last.frame) )
        => ( /\ Cardinality(MapIndex(chargerConnections', DerivedIdentity(last'.frame))) = 1
             /\ MapGet(chargerConnections', DerivedIdentity(last'.frame)) = last'.conn
             /\ connState'[last.conn] = "open" ) ]_vars

\* The last event is a command request that passed the route's validation and
\* was handed to the sender.
CommandSent == last.kind \in {"start", "stop"} /\ last.status # 400

\* C4: a command sent to an identity with no registered connection is answered
\* with a NotConnected error, not as a success (HTTP 2xx); it writes no frame
\* and leaves no pending correlation.
C4_NotConnectedReported ==
    (CommandSent /\ MapGet(chargerConnections, last.body.chargePointId) = NoConn) =>
        /\ last.status \notin 200 .. 299
        /\ last.writes = <<>>
        /\ PendingCorrelations = {}

\* C5: right after a charger booted as identity I on connection c, a POST /start
\* with chargePointId I, connectorId k and idTag t writes exactly one frame, the
\* Call [2, uniqueId, "RemoteStartTransaction", {connectorId: k, idTag: t}],
\* and writes it to c; a POST /stop with chargePointId I and transactionId x
\* likewise writes exactly one RemoteStopTransaction Call to c.
C5_CommandRouted ==
    [][ ( /\ BootDelivered
          /\ last'.kind \in {"start", "stop"}
          /\ last'.body.chargePointId = DerivedIdentity(last.frame)
          /\ last'.kind = "start" =>
                 (last'.body.connectorId # NoInt /\ last'.body.idTag # UNDEF)
          /\ last'.kind = "stop" => last'.body.transactionId # NoInt )
        => ( /\ Len(last'.writes) = 1
             /\ last'.writes[1].conn = last.conn
             /\ last'.writes[1].frame.shape = "array"
             /\ last'.writes[1].frame.messageTypeId = CALL_MESSAGE
             /\ last'.kind = "start" =>
                    /\ last'.writes[1].frame.action = "RemoteStartTransaction"
                    /\ last'.writes[1].frame.payload =
                           [kind |-> "start", connectorId |-> last'.body.connectorId,
                            idTag |-> last'.body.idTag]
             /\ last'.kind = "stop" =>
                    /\ last'.writes[1].frame.action = "RemoteStopTransaction"
                    /\ last'.writes[1].frame.payload =
                           [kind |-> "stop", transactionId |-> last'.body.transactionId] ) ]_vars

\* C6: every Call written to a connection and not yet answered by a CallResult
\* of its uniqueId from that connection has a pending correlation keyed by that
\* uniqueId.
C6_PendingWhileUnanswered ==
    \A i \in 1 .. Len(outstanding) : outstanding[i].uniqueId \in PendingCorrelations

\* C7: any two outbound Calls that are unanswered at the same time carry
\* different uniqueIds.
C7_OutstandingIdsDiffer ==
    \A i, j \in 1 .. Len(outstanding) :
        i # j => outstanding[i].uniqueId # outstanding[j].uniqueId

\* An unanswered Call to connection c under uniqueId u.
IsOutstanding(c, u) ==
    \E i \in 1 .. Len(outstanding) : outstanding[i].conn = c /\ outstanding[i].uniqueId = u

\* C8: while the process runs, an outbound Call (here one written at time 0)
\* does not stay outstanding for ever: it is answered, or it is timed out and
\* removed.
C8_NoCallOutstandingForever ==
    \A c \in Conns :
        IsOutstanding(c, UniqueIdOfNow(0)) ~>
            (~IsOutstanding(c, UniqueIdOfNow(0)) \/ crashed)

\* A malformed frame: text that is no JSON, a JSON value that is no array, an
\* array of the wrong length, or one whose uniqueId or action is no string.
Malformed(raw) ==
    \/ raw.shape \in {"invalid", "null", "scalar", "object"}
    \/ /\ raw.shape = "array"
       /\ \/ raw.uniqueId = UNDEF
          \/ raw.messageTypeId = CALL_MESSAGE /\ (raw.action = UNDEF \/ raw.payload.kind = "none")

\* C9: a malformed frame on connection c is dropped: the process goes on, c
\* stays open, the registry is unchanged and no frame is written.
C9_MalformedDropped ==
    [][ (last'.kind = "message" /\ Malformed(last'.frame)) =>
            /\ ~crashed'
            /\ connState'[last'.conn] = "open"
            /\ chargerConnections' = chargerConnections
            /\ last'.writes = <<>> ]_vars

\* A frame with a messageTypeId, as the first element of an array or as the
\* property of an object.
Typed(raw) == raw.shape \in {"array", "object"} /\ raw.messageTypeId # NoInt

\* A Call whose action is not BootNotification.
OtherCall(raw) ==
    Typed(raw) /\ raw.messageTypeId = CALL_MESSAGE /\ raw.action # "BootNotification"

\* A frame whose messageTypeId is neither 2 nor 3.
OtherType(raw) ==
    Typed(raw) /\ raw.messageTypeId \notin {CALL_MESSAGE, CALL_RESULT_MESSAGE}

\* C10: a Call with an action other than BootNotification, and a frame whose
\* messageTypeId is outside {2,3}, write no frame to any connection, leave the
\* registry unchanged and leave the connection open (and the process running).
C10_UnsupportedDropped ==
    [][ (last'.kind = "message" /\ (OtherCall(last'.frame) \/ OtherType(last'.frame))) =>
            /\ last'.writes = <<>>
            /\ chargerConnections' = chargerConnections
            /\ connState' = connState
            /\ connState'[last'.conn] = "open"
            /\ ~crashed' ]_vars

\* C10 witness: such a frame has been handled while the registry held an entry.
C10_Witness ==
    /\ last.kind = "message"
    /\ OtherCall(last.frame)
    /\ last.frame.shape = "array"
    /\ Len(chargerConnections) > 0
    /\ ~crashed

\* The last event is a POST /start or POST /stop that lacks a parameter.
ParameterAbsent ==
    \/ /\ last.kind = "start"
       /\ \/ last.body.chargePointId = UNDEF
          \/ last.body.connectorId = NoInt
          \/ last.body.idTag = UNDEF
    \/ /\ last.kind = "stop"
       /\ (last.body.chargePointId = UNDEF \/ last.body.transactionId = NoInt)

\* C11: POST /start with chargePointId, connectorId or idTag absent, and POST
\* /stop with chargePointId or transactionId absent, is answered 400, writes no
\* frame to any connection and changes no registry entry.
C11_AbsentParameterRejected ==
    [][ ParameterAbsent' =>
            /\ last'.status = 400
            /\ last'.writes = <<>>
            /\ chargerConnections' = chargerConnections ]_vars

\* C11 witness: a request naming a registered charger and lacking another
\* parameter has been answered 400.
C11_Witness ==
    /\ ParameterAbsent
    /\ last.status = 400
    /\ MapGet(chargerConnections, last.body.chargePointId) # NoConn

\* The envelope a frame carries on the wire, element by element.
Envelope(raw) ==
    [messageTypeId |-> raw.messageTypeId, uniqueId |-> raw.uniqueId,
     action |-> raw.action, payload |-> raw.payload]

\* C12: decoding the wire text of a valid Call envelope e, as the gateway
\* encodes the Calls it sends, yields e: decode(encode(e)) = e.
C12_RoundTrip ==
    \A i \in 1 .. Len(last.writes) :
        last.writes[i].frame.messageTypeId = CALL_MESSAGE =>
            Decode(last.writes[i].frame) = Envelope(last.writes[i].frame)

\* The entries of the registry whose value is connection c.
EntriesOf(m, c) == { i \in 1 .. Len(m) : m[i].ws = c }

\* C13: each connection is the value of at most one registry entry.
C13_OneIdentityPerConnection ==
    \A c \in Conns : Cardinality(EntriesOf(chargerConnections, c)) <= 1

\* C14: once the close of a connection has been handled, no registry entry maps
\* an identity to it, and no command is written to it.
C14_ClosedNotRegistered ==
    \A c \in Conns :
        connState[c] = "closed" =>
            /\ EntriesOf(chargerConnections, c) = {}
            /\ \A i \in 1 .. Len(last.writes) : last.writes[i].conn # c

\* C15: teardown is idempotent: after the close handler has run for a
\* connection, running it again for that connection leaves the registry as the
\* first run left it.
C15_TeardownIdempotent ==
    last.kind = "close" =>
        RemoveFirstOf(chargerConnections, last.conn) = chargerConnections

\* C16: a POST /start with connectorId 0, or a POST /stop with transactionId 0,
\* that names a connected identity and lacks no parameter is not answered 400:
\* its Call is written.
C16_ZeroAccepted ==
    ( /\ last.kind \in {"start", "stop"}
      /\ MapGet(chargerConnections, last.body.chargePointId) # NoConn
      /\ \/ last.kind = "start" /\ last.body.connectorId = 0 /\ last.body.idTag # UNDEF
         \/ last.kind = "stop" /\ last.body.transactionId = 0 )
    => ( /\ last.status # 400
         /\ Len(last.writes) = 1
         /\ last.writes[1].frame.messageTypeId = CALL_MESSAGE )

\* The last event is a BootNotification that registered its connection: the
\* handler took its first branch and answered.
Registered ==
    /\ last.kind = "message"
    /\ last.frame.messageTypeId = CALL_MESSAGE
    /\ last.frame.action = "BootNotification"
    /\ last.frame.payload.kind = "boot"
    /\ last.writes # <<>>

\* The keys of the registry.
Keys(m) == { m[i].id : i \in 1 .. Len(m) }

\* C17 as claimed: the identity registered is the payload's
\* chargePointSerialNumber when the payload has that field, its
\* chargePointModel otherwise, and the registration uses no other key.
C17_SerialWhenPresent ==
    [][ Registered' =>
            LET p == last'.frame.payload
                id == IF p.chargePointSerialNumber # UNDEF
                      THEN p.chargePointSerialNumber ELSE p.chargePointModel
            IN  /\ MapGet(chargerConnections', id) = last'.conn
                /\ Keys(chargerConnections') = Keys(chargerConnections) \cup {id} ]_vars

\* C17 as amended: the identity registered is the payload's
\* chargePointSerialNumber when that field is present and not empty, its
\* chargePointModel otherwise, and the registration uses no other key.
C17_SerialWhenTruthy ==
    [][ Registered' =>
            LET p == last'.frame.payload
                id == IF p.chargePointSerialNumber \notin {UNDEF, ""}
                      THEN p.chargePointSerialNumber ELSE p.chargePointModel
            IN  /\ MapGet(chargerConnections', id) = last'.conn
                /\ Keys(chargerConnections') = Keys(chargerConnections) \cup {id} ]_vars

\* C17 witness: a BootNotification with an empty serial number has registered
\* its connection under the model name.
C17_Witness ==
    /\ Registered
    /\ last.frame.payload.chargePointSerialNumber = ""
    /\ MapGet(chargerConnections, last.frame.payload.chargePointModel) = last.conn

\* C18: the close of a connection c1 removes no entry that maps an identity to
\* another connection c2 (as the entry I -> c2 that evicted c1 from I): a lookup
\* of I returns c2 as before.
C18_CloseSparesOthers ==
    [][ last'.kind = "close" =>
            \A i \in 1 .. Len(chargerConnections) :
                chargerConnections[i].ws # last'.conn =>
                    MapGet(chargerConnections', chargerConnections[i].id)
                        = chargerConnections[i].ws ]_vars

\* C18 witness: a connection has closed holding no entry of its own (as one
\* evicted from its identity), and the entry of another, open connection is in
\* the registry.
C18_Witness ==
    /\ last.kind = "close"
    /\ last.log = ""
    /\ \E i \in 1 .. Len(chargerConnections) :
           /\ chargerConnections[i].ws # last.conn
           /\ connState[chargerConnections[i].ws] = "open"

\* The entries of the registry that are not connection c's and not under key k
\* are the same before and after the step.
OthersKept(c, k) ==
    \A i \in 1 .. Len(chargerConnections) :
        (chargerConnections[i].ws # c /\ chargerConnections[i].id # k) =>
            MapGet(chargerConnections', chargerConnections[i].id) = chargerConnections[i].ws

\* C19: the registry is modified only by a BootNotification, which sets one
\* identity to its connection, and by a close, which only removes; the HTTP
\* routes, CallResult frames and every other frame leave it unchanged; and a
\* BootNotification or a close on one connection leaves the entries of other
\* identities held by other connections as they were.
C19_RegistryFrame ==
    [][ /\ chargerConnections' # chargerConnections =>
               \/ last'.kind = "close"
               \/ /\ last'.kind = "message"
                  /\ last'.frame.messageTypeId = CALL_MESSAGE
                  /\ last'.frame.action = "BootNotification"
        /\ last'.kind = "message" =>
               /\ OthersKept(last'.conn,
                      IF last'.frame.payload.kind = "boot"
                      THEN DerivedIdentity(last'.frame) ELSE UNDEF)
               /\ Keys(chargerConnections) \subseteq Keys(chargerConnections')
               /\ Cardinality(Keys(chargerConnections') \ Keys(chargerConnections)) <= 1
               /\ \A k \in Keys(chargerConnections') :
                      MapGet(chargerConnections', k) # MapGet(chargerConnections, k) =>
                          MapGet(chargerConnections', k) = last'.conn
        /\ last'.kind = "close" =>
               /\ OthersKept(last'.conn, UNDEF)
               /\ Keys(chargerConnections') \subseteq Keys(chargerConnections)
               /\ \A k \in Keys(chargerConnections') :
                      MapGet(chargerConnections', k) = MapGet(chargerConnections, k) ]_vars

\* C19 witness: a BootNotification has registered a connection while another
\* connection held another identity.
C19_Witness ==
    /\ Registered
    /\ \E i \in 1 .. Len(chargerConnections) :
           /\ chargerConnections[i].ws # last.conn
           /\ chargerConnections[i].id # DerivedIdentity(last.frame)

====
